---- MODULE Spec2Model ----
(***************************************************************************)
(* PMAPI middleware (Jasata/pmgui) as state machines.                      *)
(*                                                                         *)
(* Spec:   the DataObject column-metadata helper.  A database catalog is   *)
(*         chosen initially, a DataObject is constructed over it and its   *)
(*         query helpers are called with bounded argument lists.           *)
(* SpecEx: the Exception Translator api.exception_response() and the       *)
(*         Response Envelope Builder it hands its result to, within one    *)
(*         request.                                                        *)
(* SpecCsv:     the generator of api.stream_result_as_csv().               *)
(* SpecCtx:     before_request, route handler and teardown_request of      *)
(*              application.py over successive requests.                   *)
(* SpecCreator: runs of util/create_database.py on one database file.      *)
(* SpecBoot:    the loading of the API version at start-up.                *)
(*                                                                         *)
(* Every call is recorded in `call` and its outcome (return value or       *)
(* raised exception) in `ret`.                                             *)
(***************************************************************************)
EXTENDS Integers, Sequences, FiniteSets, TLC

VARIABLES
    db,         \* the SQLite database: catalog rows of the table, sessions
    pc,         \* "start" | "ready" (object constructed) | "called" | "failed"
    self,       \* the DataObject: a list of column descriptors (DotDict)
    session_id, \* DataObject.session_id
    ctor,       \* arguments DataObject.__init__ was called with
    call,       \* the last operation called and its arguments
    ret,        \* its outcome: [kind |-> "return", ...] or [kind |-> "raise", ...]
    req,        \* the request context: app.apiversion, matched route, timers
    csv,        \* the CSV generator: cursor, buffer and the chunks it yielded
    ctx,        \* a request's life: flask.g, the connections, the hooks' position
    creator,    \* util/create_database.py: database file, position, statements
    boot        \* application.py at start-up: the APIVERSION file and the app

vars == <<db, pc, self, session_id, ctor, call, ret, req, csv, ctx, creator, boot>>

\* the variables of the api module (DataObject, responses)
apiVars == <<db, pc, self, session_id, ctor, call, ret, req>>

\* the variables outside the api module's DataObject and responses
otherVars == <<csv, ctx, creator, boot>>

\* the state of the DataObject and of its database
objVars == <<db, self, session_id, ctor>>

(***************************************************************************)
(* Bounds of the model                                                     *)
(***************************************************************************)
\* longest include / exclude list handed to an operation
MaxList == 2

(***************************************************************************)
(* Python values and helpers                                               *)
(***************************************************************************)
None == [t |-> "None"]

\* a Python str
Str(v) == [t |-> "str", v |-> v]

Range(s) == {s[i] : i \in 1..Len(s)}

\* Python `x in lst` for a list
InList(x, lst) == \E i \in 1..Len(lst) : lst[i] = x

\* lists over S without repetition, of length at most n
DistinctSeqs(S, n) ==
    {s \in UNION {[1..k -> S] : k \in 0..n} :
        \A i, j \in 1..Len(s) : i # j => s[i] # s[j]}

\* Python ", ".join(lst)
RECURSIVE JoinComma(_)
JoinComma(lst) ==
    IF Len(lst) = 0 THEN ""
    ELSE IF Len(lst) = 1 THEN lst[1]
    ELSE lst[1] \o ", " \o JoinComma(Tail(lst))

(***************************************************************************)
(* The database.  pragma_table_info() yields one row per column:           *)
(*   <<cid, name, type, notnull, dflt_value, pk>>                          *)
(* where pk is 0 for a column outside the primary key and otherwise the    *)
(* 1-based position of the column within the primary key.                  *)
(***************************************************************************)
\* column names that tables of the catalog are built from
ColNames == {"id", "created"}

\* names a caller may hand in: the catalog's and one that no table has
ArgNames == ColNames \cup {"bogus"}

\* declared types (create_database.py uses INTEGER, TIMESTAMP, DATETIME, ...)
Types == {"INTEGER", "TIMESTAMP", "DATETIME"}

\* the table of the database; any other table name does not exist in it
TableName == "command"

\* primary-key positions for n columns: none, a single key, a two-column key
PkAssignments(n) ==
    {f \in [1..n -> 0..2] :
        LET used == {f[i] : i \in 1..n} \ {0}
        IN  /\ \A i, j \in 1..n : (i # j /\ f[i] # 0) => f[i] # f[j]
            /\ used \in {{}, {1}, {1, 2}}}

\* the catalog rows of every table over ColNames
Catalogs ==
    UNION {
        {[i \in 1..Len(names) |->
            <<i - 1, names[i], ty[i], IF pk[i] # 0 THEN 1 ELSE 0,
              IF ty[i] = "TIMESTAMP" THEN Str("CURRENT_TIMESTAMP") ELSE None, pk[i]>>] :
            ty \in [1..Len(names) -> Types], pk \in PkAssignments(Len(names))}
        : names \in DistinctSeqs(ColNames, Cardinality(ColNames)) \ {<<>>}}

\* testing_session: the table is missing, or it exists (and holds a session)
SessionStates == {"missing", "present"}

\* exclusion lists handed to DataObject.__init__
CtorExcludes == {<<>>, <<"created">>}

\* (table, exclude) pairs DataObject.__init__ is called with
CtorArgs ==
    {<<TableName, e>> : e \in CtorExcludes} \cup {<<"nosuch", <<>>>>}

\* cursor.execute("SELECT * FROM pragma_table_info('<table>')"): the rows of
\* the table, and no row at all (and no error) for a table that does not exist
pragma_table_info(d, table) ==
    IF table = TableName THEN d.rows ELSE <<>>

\* cursor.execute("SELECT max(id) FROM testing_session"); fetchone()[0]
select_max_session(d) ==
    IF d.sessions = "missing"
    THEN [kind |-> "raise", exc |-> "OperationalError",
          message |-> "no such table: testing_session"]
    ELSE [kind |-> "return", value |-> 1]

(***************************************************************************)
(* class DataObject(list)                                                  *)
(***************************************************************************)
\* the DotDict built for one pragma_table_info row
DotDict(row) ==
    [name       |-> row[2],
     datatype   |-> row[3],
     nullable   |-> IF row[4] = 0 THEN TRUE ELSE FALSE,
     default    |-> row[5],
     primarykey |-> IF row[6] = 1 THEN TRUE ELSE FALSE]

\* mutant of init_rows: the exclusion test of the loop is dropped
RECURSIVE init_rows_unfiltered(_, _)
init_rows_unfiltered(rows, exclude) ==
    IF rows = <<>> THEN <<>>
    ELSE <<DotDict(Head(rows))>> \o init_rows_unfiltered(Tail(rows), exclude)

\* the loop of __init__: one descriptor per row whose name is not excluded
RECURSIVE init_rows(_, _)
init_rows(rows, exclude) ==
    IF rows = <<>> THEN <<>>
    ELSE IF ~InList(Head(rows)[2], exclude)
         THEN <<DotDict(Head(rows))>> \o init_rows(Tail(rows), exclude)
         ELSE init_rows(Tail(rows), exclude)

\* DataObject.columns
columns(obj) == [i \in 1..Len(obj) |-> obj[i].name]

\* DataObject.primarykeys
primarykeys(obj) ==
    LET pk == SelectSeq(obj, LAMBDA col : col.primarykey)
    IN  [i \in 1..Len(pk) |-> pk[i].name]

\* DataObject.missing_columns(columns)
missing_columns(obj, cols) ==
    IF cols = <<>> THEN <<>>
    ELSE SelectSeq(cols, LAMBDA column : ~InList(column, columns(obj)))

\* mutant of purge_exclude: the purge is skipped
purge_exclude_never(obj, exclude, include_primarykeys) == exclude

\* mutant of purge_exclude: the purge ignores include_primarykeys
purge_exclude_always(obj, exclude, include_primarykeys) ==
    SelectSeq(exclude, LAMBDA col : ~InList(col, primarykeys(obj)))

\* the exclude list after "Purge primary keys from exclude list"
purge_exclude(obj, exclude, include_primarykeys) ==
    IF exclude # <<>> /\ include_primarykeys
    THEN SelectSeq(exclude, LAMBDA col : ~InList(col, primarykeys(obj)))
    ELSE exclude

\* mutant of get_column_objects: include wins over exclude
get_column_objects_include_wins(obj, include, exclude, include_primarykeys) ==
    LET excl == purge_exclude(obj, exclude, include_primarykeys)
    IN  IF include = <<>>
        THEN SelectSeq(obj, LAMBDA col : ~InList(col.name, excl))
        ELSE SelectSeq(obj, LAMBDA col :
                IF col.primarykey /\ include_primarykeys THEN TRUE
                ELSE InList(col.name, include))

\* mutant of get_column_objects: primary keys are forced in whatever the flag
get_column_objects_forced_pk(obj, include, exclude, include_primarykeys) ==
    LET excl == purge_exclude(obj, exclude, include_primarykeys)
    IN  IF include = <<>>
        THEN SelectSeq(obj, LAMBDA col : ~InList(col.name, excl))
        ELSE SelectSeq(obj, LAMBDA col :
                IF col.primarykey THEN TRUE
                ELSE InList(col.name, include) /\ ~InList(col.name, excl))

\* DataObject.get_column_objects(include, exclude, include_primarykeys)
get_column_objects(obj, include, exclude, include_primarykeys) ==
    LET excl == purge_exclude(obj, exclude, include_primarykeys)
    IN  IF include = <<>>
        THEN SelectSeq(obj, LAMBDA col : ~InList(col.name, excl))
        ELSE SelectSeq(obj, LAMBDA col :
                IF col.primarykey /\ include_primarykeys THEN TRUE
                ELSE InList(col.name, include) /\ ~InList(col.name, excl))

\* DataObject.get_column_names(include, exclude, include_primarykeys)
get_column_names(obj, include, exclude, include_primarykeys) ==
    LET lst == get_column_objects(obj, include, exclude, include_primarykeys)
    IN  [i \in 1..Len(lst) |-> lst[i].name]

\* DataObject.select_typecast(column)
select_typecast(column) ==
    IF column.datatype = "TIMESTAMP"
    THEN "CAST(strftime('%s', " \o column.name \o ") as integer) AS " \o column.name
    ELSE IF column.datatype = "DATETIME"
    THEN "datetime(" \o column.name \o ") AS " \o column.name
    ELSE column.name

\* mutant of select_columns_flist: the exclude list is not purged
select_columns_flist_unpurged(obj, include, exclude, include_primarykeys) ==
    IF include = <<>>
    THEN SelectSeq(obj, LAMBDA col : ~InList(col.name, exclude))
    ELSE SelectSeq(obj, LAMBDA col :
            IF col.primarykey /\ include_primarykeys THEN TRUE
            ELSE InList(col.name, include) /\ ~InList(col.name, exclude))

\* DataObject.select_columns: the list `flist` of selected descriptors
select_columns_flist(obj, include, exclude, include_primarykeys) ==
    LET excl == IF exclude # <<>> /\ include_primarykeys
                THEN SelectSeq(exclude, LAMBDA col : ~InList(col, primarykeys(obj)))
                ELSE exclude
    IN  IF include = <<>>
        THEN SelectSeq(obj, LAMBDA col : ~InList(col.name, excl))
        ELSE SelectSeq(obj, LAMBDA col :
                IF col.primarykey /\ include_primarykeys THEN TRUE
                ELSE InList(col.name, include) /\ ~InList(col.name, excl))

\* DataObject.select_columns: the list `slist` of SELECT fragments
select_columns_slist(obj, include, exclude, include_primarykeys) ==
    LET flist == select_columns_flist(obj, include, exclude, include_primarykeys)
    IN  [i \in 1..Len(flist) |->
            IF flist[i].datatype = "TIMESTAMP"
            THEN "CAST(strftime('%s', " \o flist[i].name \o ") as integer) AS "
                 \o flist[i].name
            ELSE IF flist[i].datatype = "DATETIME"
            THEN "datetime(" \o flist[i].name \o ") AS " \o flist[i].name
            ELSE flist[i].name]

\* DataObject.select_columns(include, exclude, include_primarykeys)
select_columns(obj, include, exclude, include_primarykeys) ==
    JoinComma(select_columns_slist(obj, include, exclude, include_primarykeys))

\* DataObject.where_condition: the descriptor found by the lookup loop, or None
where_lookup(obj, column) ==
    IF \E i \in 1..Len(obj) : obj[i].name = column
    THEN obj[CHOOSE i \in 1..Len(obj) :
                /\ obj[i].name = column
                /\ \A j \in 1..(i - 1) : obj[j].name # column]
    ELSE None

\* mutant of where_condition: the DATETIME branch is missing
where_condition_no_datetime(obj, column) ==
    LET col == where_lookup(obj, column)
    IN  IF col = None
        THEN [kind |-> "raise", exc |-> "ValueError",
              message |-> "Non-existent column specified"]
        ELSE [kind |-> "return", value |->
                IF col.datatype = "TIMESTAMP"
                THEN "CAST(strftime('%s', " \o col.name \o ") as integer)"
                ELSE col.name]

\* DataObject.where_condition(column)
where_condition(obj, column) ==
    LET col == where_lookup(obj, column)
    IN  IF col = None
        THEN [kind |-> "raise", exc |-> "ValueError",
              message |-> "Non-existent column specified"]
        ELSE [kind |-> "return", value |->
                IF col.datatype = "TIMESTAMP"
                THEN "CAST(strftime('%s', " \o col.name \o ") as integer)"
                ELSE IF col.datatype = "DATETIME"
                THEN "datetime(" \o col.name \o ")"
                ELSE col.name]

(***************************************************************************)
(* The state machine                                                       *)
(***************************************************************************)
NoCall == [op |-> "none"]
NoRet == [kind |-> "none"]
NoRequest == [active |-> FALSE]

\* a part of the program that does not take part in a specification
Unused == [pc |-> "unused"]

\* include / exclude lists handed to the selector operations
ArgLists == DistinctSeqs(ArgNames, MaxList)

Init ==
    /\ db \in [rows : Catalogs, sessions : SessionStates]
    /\ pc = "start"
    /\ self = <<>>
    /\ session_id = None
    /\ ctor = NoCall
    /\ call = NoCall
    /\ ret = NoRet
    /\ req = NoRequest
    /\ csv = Unused
    /\ ctx = Unused
    /\ creator = Unused
    /\ boot = Unused

\* DataObject.__init__(cursor, table, exclude)
Construct(table, exclude) ==
    /\ pc = "start"
    /\ ctor' = [op |-> "__init__", table |-> table, exclude |-> exclude]
    /\ call' = [op |-> "__init__"]
    /\ LET rows == pragma_table_info(db, table)
           sess == select_max_session(db)
       IN  IF sess.kind = "raise"
           THEN /\ pc' = "failed"
                /\ self' = <<>>
                /\ session_id' = None
                /\ ret' = sess
           ELSE /\ pc' = "ready"
                /\ self' = init_rows(rows, exclude)
                /\ session_id' = sess.value
                /\ ret' = [kind |-> "return"]
    /\ UNCHANGED <<db, req, otherVars>>

\* reading the DataObject.columns property
Columns ==
    /\ pc = "ready"
    /\ pc' = "called"
    /\ call' = [op |-> "columns"]
    /\ ret' = [kind |-> "return", value |-> columns(self)]
    /\ UNCHANGED <<objVars, req, otherVars>>

\* reading the DataObject.primarykeys property
Primarykeys ==
    /\ pc = "ready"
    /\ pc' = "called"
    /\ call' = [op |-> "primarykeys"]
    /\ ret' = [kind |-> "return", value |-> primarykeys(self)]
    /\ UNCHANGED <<objVars, req, otherVars>>

\* DataObject.missing_columns(columns)
MissingColumns(cols) ==
    /\ pc = "ready"
    /\ pc' = "called"
    /\ call' = [op |-> "missing_columns", columns |-> cols]
    /\ ret' = [kind |-> "return", value |-> missing_columns(self, cols)]
    /\ UNCHANGED <<objVars, req, otherVars>>

\* DataObject.get_column_objects(include, exclude, include_primarykeys)
GetColumnObjects(include, exclude, ipk) ==
    /\ pc = "ready"
    /\ pc' = "called"
    /\ call' = [op |-> "get_column_objects", include |-> include,
                exclude |-> exclude, include_primarykeys |-> ipk]
    /\ ret' = [kind |-> "return",
               value |-> get_column_objects(self, include, exclude, ipk)]
    /\ UNCHANGED <<objVars, req, otherVars>>

\* DataObject.get_column_names(include, exclude, include_primarykeys)
GetColumnNames(include, exclude, ipk) ==
    /\ pc = "ready"
    /\ pc' = "called"
    /\ call' = [op |-> "get_column_names", include |-> include,
                exclude |-> exclude, include_primarykeys |-> ipk]
    /\ ret' = [kind |-> "return",
               value |-> get_column_names(self, include, exclude, ipk)]
    /\ UNCHANGED <<objVars, req, otherVars>>

\* DataObject.select_columns(include, exclude, include_primarykeys)
SelectColumns(include, exclude, ipk) ==
    /\ pc = "ready"
    /\ pc' = "called"
    /\ call' = [op |-> "select_columns", include |-> include,
                exclude |-> exclude, include_primarykeys |-> ipk]
    /\ ret' = [kind |-> "return",
               value |-> select_columns(self, include, exclude, ipk)]
    /\ UNCHANGED <<objVars, req, otherVars>>

\* DataObject.select_typecast(column), for a descriptor of the object
SelectTypecast(i) ==
    /\ pc = "ready"
    /\ pc' = "called"
    /\ i \in 1..Len(self)
    /\ call' = [op |-> "select_typecast", column |-> self[i]]
    /\ ret' = [kind |-> "return", value |-> select_typecast(self[i])]
    /\ UNCHANGED <<objVars, req, otherVars>>

\* DataObject.where_condition(column)
WhereCondition(column) ==
    /\ pc = "ready"
    /\ pc' = "called"
    /\ call' = [op |-> "where_condition", column |-> column]
    /\ ret' = where_condition(self, column)
    /\ UNCHANGED <<objVars, req, otherVars>>

\* the calling handler takes the outcome and goes on using the object
Return ==
    /\ pc = "called"
    /\ pc' = "ready"
    /\ call' = NoCall
    /\ ret' = NoRet
    /\ UNCHANGED <<objVars, req, otherVars>>

Next ==
    \/ \E a \in CtorArgs : Construct(a[1], a[2])
    \/ Columns
    \/ Primarykeys
    \/ \E cols \in ArgLists : MissingColumns(cols)
    \/ \E include \in ArgLists, exclude \in ArgLists, ipk \in BOOLEAN :
            GetColumnObjects(include, exclude, ipk)
    \/ \E include \in ArgLists, exclude \in ArgLists, ipk \in BOOLEAN :
            GetColumnNames(include, exclude, ipk)
    \/ \E include \in ArgLists, exclude \in ArgLists, ipk \in BOOLEAN :
            SelectColumns(include, exclude, ipk)
    \/ \E i \in 1..Cardinality(ColNames) : SelectTypecast(i)
    \/ \E column \in ArgNames : WhereCondition(column)
    \/ Return

Spec == Init /\ [][Next]_vars

(***************************************************************************)
(* Python values handed to and produced by the Exception Translator        *)
(***************************************************************************)
\* longest elapsed time (in clock ticks) between before_request and the reply
MaxElapsed == 1

PyInt(n) == [t |-> "int", v |-> n]
PyFloat(x) == [t |-> "float", v |-> x]
List(items) == [t |-> "list", v |-> items]
Dict(items) == [t |-> "dict", v |-> items]

\* an object json cannot encode itself but str() can (a timedelta, a class)
Obj(text) == [t |-> "object", str |-> text]

\* a dict with a tuple key: json.dumps() raises TypeError for it
TupleKeyDict == [t |-> "tuplekeydict"]

\* Python truth value of a value
Truthy(v) ==
    CASE v.t = "None" -> FALSE
      [] v.t = "str"  -> v.v # ""
      [] v.t = "int"  -> v.v # 0
      [] v.t = "float" -> v.v # 0
      [] v.t = "list" -> v.v # <<>>
      [] v.t = "dict" -> DOMAIN v.v # {}
      [] OTHER        -> TRUE

\* whether json.dumps(v, default=str) succeeds
RECURSIVE Serializable(_)
Serializable(v) ==
    CASE v.t = "tuplekeydict" -> FALSE
      [] v.t = "list" -> \A i \in 1..Len(v.v) : Serializable(v.v[i])
      [] v.t = "dict" -> \A k \in DOMAIN v.v : Serializable(v.v[k])
      [] OTHER -> TRUE

\* the JSON value json.dumps(v, default=str) writes for a serializable v
RECURSIVE JsonValue(_)
JsonValue(v) ==
    CASE v.t = "None"   -> [j |-> "null"]
      [] v.t = "str"    -> [j |-> "string", v |-> v.v]
      [] v.t = "int"    -> [j |-> "number", v |-> v.v]
      [] v.t = "float"  -> [j |-> "number", v |-> v.v]
      [] v.t = "object" -> [j |-> "string", v |-> v.str]
      [] v.t = "list"   -> [j |-> "array", v |-> [i \in 1..Len(v.v) |-> JsonValue(v.v[i])]]
      [] v.t = "dict"   -> [j |-> "object", v |-> [k \in DOMAIN v.v |-> JsonValue(v.v[k])]]

(***************************************************************************)
(* API exception classes                                                   *)
(***************************************************************************)
\* the subclasses of ApiException
DomainKinds ==
    {"NotFound", "MethodNotAllowed", "InvalidArgument", "Conflict",
     "Timeout", "InternalError", "NotImplemented"}

\* self.code as set by the __init__ of each subclass
KindCode(cls) ==
    CASE cls = "NotFound"         -> 404
      [] cls = "MethodNotAllowed" -> 405
      [] cls = "InvalidArgument"  -> 406
      [] cls = "Conflict"         -> 409
      [] cls = "Timeout"          -> 500
      [] cls = "InternalError"    -> 500
      [] cls = "NotImplemented"   -> 501

\* the default of the `message` argument of each class
DefaultMessage(cls) ==
    CASE cls = "ApiException"     -> "Unspecified API Error"
      [] cls = "NotFound"         -> "Entity not found!"
      [] cls = "MethodNotAllowed" -> "Requested method is not supported!"
      [] cls = "InvalidArgument"  -> "Provided argument(s) are invalid!"
      [] cls = "Conflict"         ->
            "Unique, primary key, foreign key or other constraint violation!"
      [] cls = "Timeout"          -> "Processing/polling exceeded allowed timeout!"
      [] cls = "InternalError"    -> "Unspecified internal processing error!"
      [] cls = "NotImplemented"   -> "Requested functionality is not yet implemented."

\* ApiException.__init__(message, details): the instance of the base class,
\* which has the class attribute ApiException = True and no `code`
ApiException(message, details) ==
    [t |-> "exception", cls |-> "ApiException", ApiException |-> TRUE,
     message |-> message, details |-> details]

\* the __init__ of a subclass: that of the base class, then self.code
DomainError(cls, message, details) ==
    [t |-> "exception", cls |-> cls, ApiException |-> TRUE,
     message |-> message, details |-> details, code |-> PyInt(KindCode(cls))]

\* an instance of the base class whose creator has set its `code` attribute
CodedApiException(message, details, code) ==
    [t |-> "exception", cls |-> "ApiException", ApiException |-> TRUE,
     message |-> message, details |-> details, code |-> code]

\* an exception that is no ApiException, with the frames of its traceback
\* (none when it was never raised)
OtherError(cls, message, frames) ==
    [t |-> "exception", cls |-> cls, ApiException |-> FALSE,
     message |-> message, frames |-> frames]

\* mutant of to_dict: details are left out only when they are None
to_dict_not_none(ex) ==
    IF ex.details # None
    THEN [message |-> Str(ex.message), details |-> ex.details]
    ELSE [message |-> Str(ex.message)]

\* ApiException.to_dict()
to_dict(ex) ==
    IF Truthy(ex.details)
    THEN [message |-> Str(ex.message), details |-> ex.details]
    ELSE [message |-> Str(ex.message)]

\* traceback.format_exception(type(ex), ex, ex.__traceback__)
format_exception(ex) ==
    LET last == ex.cls \o ": " \o ex.message \o "\n"
    IN  IF ex.frames = <<>> THEN <<last>>
        ELSE <<"Traceback (most recent call last):\n">> \o ex.frames \o <<last>>

\* "".join(lst)
RECURSIVE JoinEmpty(_)
JoinEmpty(lst) == IF lst = <<>> THEN "" ELSE Head(lst) \o JoinEmpty(Tail(lst))

(***************************************************************************)
(* __make_response(code, payload)                                          *)
(***************************************************************************)
\* the response of the except branch
FallbackResponse(error) ==
    [status |-> 500,
     body |-> [text |-> "api.__make_response() Internal Error: " \o error],
     mimetype |-> "text/html",
     headers |-> [x \in {} |-> ""]]

\* __make_response(code, payload) in request context rq; `code` is a Python
\* value, `payload` a dict (a function from keys to Python values) or None
make_response(code, payload, rq) ==
    IF payload = None \/ code.t # "int"
    THEN [kind |-> "raise", exc |-> "AssertionError"]
    ELSE LET api == Dict([version |-> PyInt(rq.apiversion),
                          t_cpu   |-> PyFloat(rq.t_cpu),
                          t_real  |-> PyFloat(rq.t_real)])
             full == [k \in DOMAIN payload \cup {"api"} |->
                        IF k = "api" THEN api ELSE payload[k]]
         IN  [kind |-> "return", value |->
                IF \A k \in DOMAIN full : Serializable(full[k])
                THEN [status |-> code.v,
                      body |-> [json |-> [k \in DOMAIN full |-> JsonValue(full[k])]],
                      mimetype |-> "application/json",
                      headers |->
                        [Allow |-> rq.methods \ {"HEAD", "OPTIONS"},
                         ContentType |-> "application/json"]]
                ELSE FallbackResponse(
                        "keys must be str, int, float, bool or None, not tuple")]

(***************************************************************************)
(* exception_response(ex)                                                  *)
(***************************************************************************)
\* the (code, payload) pair of the try block, or the exception raised in it
translate(ex) ==
    IF ex.t = "exception"
    THEN IF ex.ApiException
         THEN IF "code" \in DOMAIN ex
              THEN [kind |-> "return", code |-> ex.code, payload |-> to_dict(ex)]
              ELSE [kind |-> "raise", exc |-> "AttributeError"]
         ELSE LET e == format_exception(ex)
              IN  [kind |-> "return", code |-> PyInt(500),
                   payload |-> [error |-> Str(e[Len(e)]),
                                trace |-> Str(JoinEmpty(SubSeq(e, 2, Len(e) - 1)))]]
    ELSE [kind |-> "return", code |-> PyInt(500),
          payload |-> [error   |-> Str("Uknown"),
                       details |-> Str("api.exception_response() received unsupported argument"),
                       type    |-> Obj("<class '" \o ex.t \o "'>")]]

\* mutant of exception_response: the try block has no except branch
exception_response_unguarded(ex, rq) ==
    IF ~Truthy(ex)
    THEN make_response(PyInt(500),
            [error   |-> Str("Unknown"),
             details |-> Str("api.exception_response() received: None!")], rq)
    ELSE LET tr == translate(ex)
         IN  IF tr.kind = "return" THEN make_response(tr.code, tr.payload, rq)
             ELSE tr

\* mutant of exception_response: the test for a missing argument is dropped
exception_response_no_none_test(ex, rq) ==
    LET tr == translate(ex)
        made == IF tr.kind = "return"
                THEN make_response(tr.code, tr.payload, rq)
                ELSE tr
    IN  IF made.kind = "return" THEN made
        ELSE make_response(PyInt(500),
               [error   |-> Str("Internal Error"),
                details |-> Str("api.exception_response() internal failure!")], rq)

\* exception_response(ex) in request context rq
exception_response(ex, rq) ==
    IF ~Truthy(ex)
    THEN make_response(PyInt(500),
            [error   |-> Str("Unknown"),
             details |-> Str("api.exception_response() received: None!")], rq)
    ELSE LET tr == translate(ex)
             made == IF tr.kind = "return"
                     THEN make_response(tr.code, tr.payload, rq)
                     ELSE tr
         IN  IF made.kind = "return" THEN made
             ELSE make_response(PyInt(500),
                    [error   |-> Str("Internal Error"),
                     details |-> Str("api.exception_response() internal failure!")], rq)

\* api.response(response_tuple)
response(response_tuple, rq) ==
    make_response(response_tuple[1], response_tuple[2], rq)

(***************************************************************************)
(* The Exception Translator within one request                             *)
(***************************************************************************)
\* app.apiversion: the version read at startup, or -1
ApiVersions == {-1, 2}

\* request.url_rule.methods of the matched route
RouteMethods == {{"GET", "HEAD", "OPTIONS"}, {"POST", "PATCH", "OPTIONS"}}

\* messages errors are built with, besides the default of their class
Messages == {"session 7 does not exist"}

\* `details` values errors are built with
DetailValues ==
    {None, Str(""), Str("id = 7"), PyInt(0), List(<<>>), List(<<Str("id")>>),
     Obj("0:00:31"), TupleKeyDict}

\* the arguments exception_response is called with
ExArgs ==
    {DomainError(cls, m, d) :
        cls \in DomainKinds, m \in Messages, d \in DetailValues}
    \cup {DomainError(cls, DefaultMessage(cls), d) :
        cls \in DomainKinds, d \in DetailValues}
    \cup {ApiException(DefaultMessage("ApiException"), d) : d \in DetailValues}
    \cup {OtherError("ValueError", "Non-existent column specified", f) :
        f \in {<<>>, <<"  File \"api/__init__.py\", line 293, in where_condition\n">>}}
    \cup {CodedApiException(DefaultMessage("ApiException"), None, c) :
        c \in {PyInt(418), Str("404"), None}}
    \cup {None, Str(""), Str("oops"), PyInt(0)}

\* the (code, payload) tuples the CRUD functions of the data classes return:
\* {'id': <id>} for post, {'data': [...]} for get and search, None for delete
ResponseTuples ==
    {<<PyInt(200), [id |-> PyInt(7)]>>,
     <<PyInt(200), [data |-> List(<<>>)]>>,
     <<PyInt(200), [data |-> List(<<Str("row"), Obj("0:00:31")>>)]>>,
     <<PyInt(200), [data |-> List(<<TupleKeyDict>>)]>>,
     <<PyInt(200), None>>}

InitEx ==
    /\ db = [rows |-> <<>>, sessions |-> "missing"]
    /\ pc = "request"
    /\ self = <<>>
    /\ session_id = None
    /\ ctor = NoCall
    /\ call = NoCall
    /\ ret = NoRet
    /\ req \in [active : {TRUE}, apiversion : ApiVersions, methods : RouteMethods,
                t_cpu : 0..MaxElapsed, t_real : 0..MaxElapsed]
    /\ csv = Unused
    /\ ctx = Unused
    /\ creator = Unused
    /\ boot = Unused

\* a route handler hands the exception it caught to api.exception_response()
ExceptionResponse(ex) ==
    /\ pc = "request"
    /\ pc' = "responded"
    /\ call' = [op |-> "exception_response", ex |-> ex]
    /\ ret' = exception_response(ex, req)
    /\ UNCHANGED <<objVars, req, otherVars>>

\* a route handler hands the tuple of a CRUD function to api.response()
Response(response_tuple) ==
    /\ pc = "request"
    /\ pc' = "responded"
    /\ call' = [op |-> "response", code |-> response_tuple[1],
                payload |-> response_tuple[2]]
    /\ ret' = response(response_tuple, req)
    /\ UNCHANGED <<objVars, req, otherVars>>

NextEx ==
    \/ \E ex \in ExArgs : ExceptionResponse(ex)
    \/ \E response_tuple \in ResponseTuples : Response(response_tuple)

SpecEx == InitEx /\ [][NextEx]_vars

(***************************************************************************)
(* Properties of the Column Selector and the Fragment Builder              *)
(***************************************************************************)
Called(op) == pc = "called" /\ call.op = op

\* the descriptors of s at the positions marked in keep, in the order of s
RECURSIVE Restrict(_, _)
Restrict(s, keep) ==
    IF s = <<>> THEN <<>>
    ELSE (IF Head(keep) THEN <<Head(s)>> ELSE <<>>) \o Restrict(Tail(s), Tail(keep))

\* the SELECT fragment the design gives a descriptor, by declared type
FragmentSelect(col) ==
    CASE col.datatype = "TIMESTAMP" ->
            "CAST(strftime('%s', " \o col.name \o ") as integer) AS " \o col.name
      [] col.datatype = "DATETIME" ->
            "datetime(" \o col.name \o ") AS " \o col.name
      [] OTHER -> col.name

\* the comparison fragment the design gives a descriptor, by declared type
FragmentWhere(col) ==
    CASE col.datatype = "TIMESTAMP" ->
            "CAST(strftime('%s', " \o col.name \o ") as integer)"
      [] col.datatype = "DATETIME" -> "datetime(" \o col.name \o ")"
      [] OTHER -> col.name

\* the SELECT list text for a list of descriptors
SelectText(cols) == JoinComma([i \in 1..Len(cols) |-> FragmentSelect(cols[i])])

\* the primary-key descriptors of the object
PkCols == {self[i] : i \in {j \in 1..Len(self) : self[j].primarykey}}

\* the last call was one of the three selector operations
SelectorCall ==
    /\ pc = "called"
    /\ call.op \in {"get_column_objects", "get_column_names", "select_columns"}

C2_IncludeSemantics ==
    (Called("get_column_objects") /\ call.include # <<>>) =>
        /\ ret.value =
            SelectSeq(self, LAMBDA col :
                \/ col.primarykey /\ call.include_primarykeys
                \/ InList(col.name, call.include) /\ ~InList(col.name, call.exclude))
        /\ \A i, j \in 1..Len(ret.value) : i # j => ret.value[i] # ret.value[j]

\* C2 witness: include names two columns in the reverse of catalog order and
\* both are returned
C2_Witness ==
    /\ Called("get_column_objects")
    /\ Len(self) = 2
    /\ call.include = <<self[2].name, self[1].name>>
    /\ ret.value = self

\* C2 witness of the precedence rule: a column that is no primary key is named
\* in include and in exclude and is left out
C2_WitnessExcludeWins ==
    /\ Called("get_column_objects")
    /\ \E i \in 1..Len(self) :
            /\ ~self[i].primarykey
            /\ InList(self[i].name, call.include)
            /\ InList(self[i].name, call.exclude)
            /\ ~InList(self[i], ret.value)

\* C3: with an empty include, get_column_objects returns every descriptor
\* whose name is not in exclude, in catalog order, primary-key names being
\* removed from exclude first when include_primarykeys is True; with
\* nothing excluded the full descriptor list is returned.
C3_ExcludeSemantics ==
    (Called("get_column_objects") /\ call.include = <<>>) =>
        /\ ret.value =
            SelectSeq(self, LAMBDA col :
                \/ ~InList(col.name, call.exclude)
                \/ call.include_primarykeys /\ col.primarykey)
        /\ (call.exclude = <<>> /\ call.include_primarykeys) => ret.value = self

\* C3 witness: empty include, a primary key and another column both excluded,
\* flag set: only the primary key comes back
C3_Witness ==
    /\ Called("get_column_objects")
    /\ call.include = <<>>
    /\ call.include_primarykeys
    /\ Len(self) = 2
    /\ self[2].primarykey /\ ~self[1].primarykey
    /\ InList(self[1].name, call.exclude) /\ InList(self[2].name, call.exclude)
    /\ ret.value = <<self[2]>>

\* C4: with include_primarykeys = False a primary key is treated like any
\* column: absent when a non-empty include does not name it, and absent
\* when exclude names it.
C4_NoSpecialTreatment ==
    (Called("get_column_objects") /\ ~call.include_primarykeys) =>
        \A col \in PkCols :
            /\ (call.include # <<>> /\ ~InList(col.name, call.include))
                    => ~InList(col, ret.value)
            /\ InList(col.name, call.exclude) => ~InList(col, ret.value)

\* C4 witness: flag off, the primary key is named in include and in exclude,
\* and is absent from the result
C4_Witness ==
    /\ Called("get_column_objects")
    /\ ~call.include_primarykeys
    /\ \E col \in PkCols :
            /\ InList(col.name, call.include)
            /\ InList(col.name, call.exclude)
            /\ ~InList(col, ret.value)

\* C5 (as claimed): where_condition for a name that has no descriptor fails
\* with the InvalidArgument domain error (status 406) and returns no fragment.
C5_UnknownColumnInvalidArgument ==
    (Called("where_condition") /\ ~InList(call.column, columns(self))) =>
        /\ ret.kind = "raise"
        /\ ret.exc = "InvalidArgument"

\* C6: the fragment depends on the declared type alone, and the SELECT
\* fragment of select_typecast is the comparison fragment of where_condition
\* followed by " AS <name>" for TIMESTAMP and DATETIME, and equal to it
\* otherwise.
C6_FragmentsByType ==
    /\ Called("select_typecast") =>
        /\ ret.value = FragmentSelect(call.column)
        /\ LET w == where_condition(self, call.column.name)
           IN  /\ w.kind = "return"
               /\ ret.value =
                    IF call.column.datatype \in {"TIMESTAMP", "DATETIME"}
                    THEN w.value \o " AS " \o call.column.name
                    ELSE w.value
    /\ (Called("where_condition") /\ ret.kind = "return") =>
        \E i \in 1..Len(self) :
            /\ self[i].name = call.column
            /\ ret.value = FragmentWhere(self[i])

\* C6 witness: the comparison fragment of a DATETIME column
C6_Witness ==
    /\ Called("where_condition")
    /\ ret.kind = "return"
    /\ ret.value = "datetime(created)"

\* C6 witness: the SELECT fragment of a TIMESTAMP column
C6_WitnessSelect ==
    /\ Called("select_typecast")
    /\ ret.value = "CAST(strftime('%s', created) as integer) AS created"

\* C7: select_columns returns the ", "-join of the select_typecast fragments
\* of the descriptors get_column_objects returns for the same arguments, and
\* get_column_names returns the names of those descriptors in that order.
C7_SelectColumnsRefinesSelector ==
    (pc = "called" /\ call.op \in {"select_columns", "get_column_names"}) =>
        LET objs == get_column_objects(self, call.include, call.exclude,
                                       call.include_primarykeys)
        IN  IF call.op = "select_columns"
            THEN ret.value =
                    JoinComma([i \in 1..Len(objs) |-> select_typecast(objs[i])])
            ELSE ret.value = [i \in 1..Len(objs) |-> objs[i].name]

\* C7 witness: a two-column SELECT list with a cast fragment and a forced
\* primary key
C7_Witness ==
    /\ Called("select_columns")
    /\ call.include = <<"created">>
    /\ call.exclude = <<"id">>
    /\ ret.value = "id, datetime(created) AS created"

\* C8 (as claimed): constructing a DataObject for a table that does not
\* exist fails; no object with an empty descriptor list is produced.
C8_MissingTableFails ==
    (ctor # NoCall /\ ctor.table # TableName) => pc = "failed"

\* the descriptor list the design requires after construction
ExpectedDescriptors ==
    LET rows == IF ctor.table = TableName THEN db.rows ELSE <<>>
        kept == SelectSeq(rows, LAMBDA row : row[2] \notin Range(ctor.exclude))
    IN  [i \in 1..Len(kept) |->
            [name |-> kept[i][2], datatype |-> kept[i][3],
             nullable |-> (kept[i][4] = 0), default |-> kept[i][5],
             primarykey |-> (kept[i][6] = 1)]]

\* C9: after construction with exclusion list E the descriptor list is the
\* table's catalog columns not named in E, in catalog order, one per name; no
\* later operation changes the list or shows an excluded column.
C9_DescriptorsAreCatalogMinusExcluded ==
    pc \in {"ready", "called"} =>
        /\ self = ExpectedDescriptors
        /\ \A i, j \in 1..Len(self) : i # j => self[i].name # self[j].name
        /\ pc = "called" =>
            \A x \in Range(ctor.exclude) :
                CASE call.op \in {"columns", "primarykeys", "get_column_names"} ->
                        ~InList(x, ret.value)
                  [] call.op = "get_column_objects" ->
                        \A i \in 1..Len(ret.value) : ret.value[i].name # x
                  [] call.op = "select_columns" ->
                        \E keep \in [1..Len(self) -> BOOLEAN] :
                            ret.value = SelectText(Restrict(self, keep))
                  [] call.op = "select_typecast" -> call.column.name # x
                  [] call.op = "where_condition" ->
                        call.column = x => ret.kind = "raise"
                  [] call.op = "missing_columns" ->
                        InList(x, call.columns) => InList(x, ret.value)
                  [] OTHER -> TRUE

\* C9 witness: a catalog column is excluded at construction and a later
\* get_column_names that includes it does not return it
C9_Witness ==
    /\ Called("get_column_names")
    /\ ctor.exclude = <<"created">>
    /\ \E i \in 1..Len(db.rows) : db.rows[i][2] = "created"
    /\ ctor.table = TableName
    /\ InList("created", call.include)
    /\ ~InList("created", ret.value)
    /\ Len(self) = 1

(***************************************************************************)
(* Properties of the Exception Translator                                  *)
(***************************************************************************)
\* the status the error taxonomy fixes for each kind
TaxonomyStatus ==
    [NotFound |-> 404, MethodNotAllowed |-> 405, InvalidArgument |-> 406,
     Conflict |-> 409, Timeout |-> 500, InternalError |-> 500,
     NotImplemented |-> 501]

\* exception_response was called with an error of one of the seven kinds
DomainErrorCall ==
    /\ pc = "responded"
    /\ call.op = "exception_response"
    /\ call.ex.t = "exception"
    /\ call.ex.cls \in DomainKinds

\* the response is the JSON envelope with this status, the error's message
\* and, when `carried`, the error's details
IsErrorEnvelope(resp, ex, carried) ==
    /\ resp.status = TaxonomyStatus[ex.cls]
    /\ "json" \in DOMAIN resp.body
    /\ resp.body.json.message = [j |-> "string", v |-> ex.message]
    /\ ("details" \in DOMAIN resp.body.json) <=> carried
    /\ carried => resp.body.json.details = JsonValue(ex.details)

\* C10 (as claimed): for every Domain Error kind the response has the kind's
\* fixed status, the error's message under 'message', and 'details' exactly
\* when the error was given a details value.
C10_DomainErrorEnvelope ==
    DomainErrorCall =>
        /\ ret.kind = "return"
        /\ IsErrorEnvelope(ret.value, call.ex, call.ex.details # None)

\* C10 (amended): 'details' is carried exactly when the error's details value
\* is truthy, and the response has the kind's status and this payload unless
\* the carried details cannot be serialized; then it is the response
\* builder's plain 500 fallback.
C10_DomainErrorEnvelopeTruthyDetails ==
    DomainErrorCall =>
        /\ ret.kind = "return"
        /\ LET carried == Truthy(call.ex.details)
           IN  IF carried /\ ~Serializable(call.ex.details)
               THEN /\ ret.value.status = 500
                    /\ "text" \in DOMAIN ret.value.body
               ELSE IsErrorEnvelope(ret.value, call.ex, carried)

\* C10 witness: a Conflict built with an empty details list is answered with
\* status 409, its own message and no 'details'
C10_Witness ==
    /\ DomainErrorCall
    /\ call.ex.cls = "Conflict"
    /\ call.ex.message = "session 7 does not exist"
    /\ call.ex.details = List(<<>>)
    /\ ret.value.status = 409
    /\ DOMAIN ret.value.body.json = {"message", "api"}

\* exception_response was called with this kind of argument
ExCall == pc = "responded" /\ call.op = "exception_response"

\* the response is the JSON envelope of the translator's generic failure
IsGenericFailure(resp) ==
    /\ resp.status = 500
    /\ "json" \in DOMAIN resp.body
    /\ resp.body.json.error = [j |-> "string", v |-> "Internal Error"]
    /\ resp.body.json.details =
            [j |-> "string", v |-> "api.exception_response() internal failure!"]

\* C11: exception_response never raises: an error that is no domain error is
\* answered with status 500 and 'error' and 'trace' fields, and a failure of
\* the translation itself (a domain error without a status code, or with one
\* that is no integer) with the generic 500 response.
C11_TranslatorNeverRaises ==
    ExCall =>
        /\ ret.kind = "return"
        /\ (call.ex.t = "exception" /\ ~call.ex.ApiException) =>
                /\ ret.value.status = 500
                /\ "json" \in DOMAIN ret.value.body
                /\ {"error", "trace"} \subseteq DOMAIN ret.value.body.json
                /\ ret.value.body.json.error =
                        [j |-> "string",
                         v |-> call.ex.cls \o ": " \o call.ex.message \o "\n"]
        /\ (call.ex.t = "exception" /\ call.ex.ApiException
                /\ ("code" \notin DOMAIN call.ex \/ call.ex.code.t # "int")) =>
                IsGenericFailure(ret.value)

\* C11 witness: a domain error object without a status code is answered with
\* the generic 500 response
C11_Witness ==
    /\ ExCall
    /\ call.ex.t = "exception"
    /\ call.ex.ApiException
    /\ "code" \notin DOMAIN call.ex
    /\ ret.kind = "return"
    /\ IsGenericFailure(ret.value)

\* C11 witness: an unexpected error that was raised is answered with its
\* last trace line under 'error' and its frames under 'trace'
C11_WitnessUnexpected ==
    /\ ExCall
    /\ call.ex.t = "exception"
    /\ ~call.ex.ApiException
    /\ call.ex.frames # <<>>
    /\ ret.value.status = 500
    /\ ret.value.body.json.trace = [j |-> "string", v |-> call.ex.frames[1]]

\* C12: exception_response(None) returns status 500 with a payload that
\* says None was received, and none of the fields of the domain-error and
\* unexpected-error branches.
C12_NoneArgument ==
    (ExCall /\ call.ex = None) =>
        /\ ret.kind = "return"
        /\ ret.value.status = 500
        /\ "json" \in DOMAIN ret.value.body
        /\ DOMAIN ret.value.body.json = {"error", "details", "api"}
        /\ ret.value.body.json.error = [j |-> "string", v |-> "Unknown"]
        /\ ret.value.body.json.details =
                [j |-> "string", v |-> "api.exception_response() received: None!"]

\* C12 witness: the call with None has been answered
C12_Witness ==
    /\ ExCall
    /\ call.ex = None
    /\ ret.kind = "return"
    /\ ret.value.status = 500

(***************************************************************************)
(* Properties of the Response Envelope Builder                             *)
(***************************************************************************)
\* api.response was called
ResponseCall == pc = "responded" /\ call.op = "response"

\* C13 (as claimed): the response builder never raises for a tuple a handler
\* hands it, also for (code, None) and for a payload that cannot be
\* serialized: every failure gives a returned response with status 500.
C13_BuilderNeverRaises ==
    ResponseCall =>
        /\ ret.kind = "return"
        /\ (call.payload = None
                \/ \E k \in DOMAIN call.payload : ~Serializable(call.payload[k]))
             => ret.value.status = 500

\* C14 (as claimed): every response the builder returns, the fallback
\* included, has a body with an 'api' object whose version is the configured
\* one and which has 't_cpu' and 't_real', and an Allow header listing the
\* methods of the matched route without HEAD and OPTIONS.
C14_EveryResponseIsEnvelope ==
    (pc = "responded" /\ ret.kind = "return") =>
        /\ "json" \in DOMAIN ret.value.body
        /\ "api" \in DOMAIN ret.value.body.json
        /\ ret.value.body.json.api.v.version = [j |-> "number", v |-> req.apiversion]
        /\ {"t_cpu", "t_real"} \subseteq DOMAIN ret.value.body.json.api.v
        /\ "Allow" \in DOMAIN ret.value.headers
        /\ ret.value.headers.Allow = req.methods \ {"HEAD", "OPTIONS"}

(***************************************************************************)
(* The CSV Export Streamer: stream_result_as_csv(cursor) and its generator *)
(* generate(cursor).  Text is a sequence of characters, so that quoting    *)
(* and the buffer's overwriting can be computed.                           *)
(***************************************************************************)
\* most rows a query result has
MaxRows == 2

Digits == <<"0", "1", "2", "3", "4", "5", "6", "7", "8", "9">>

\* str(n) of an int n >= 0, as characters
RECURSIVE DecimalChars(_)
DecimalChars(n) ==
    IF n < 10 THEN <<Digits[n + 1]>>
    ELSE DecimalChars(n \div 10) \o <<Digits[(n % 10) + 1]>>

\* what csv.writer makes of a field before quoting: '' for None, else str()
FieldText(v) ==
    IF v = None THEN <<>>
    ELSE IF v.t = "int" THEN DecimalChars(v.v)
    ELSE v.v

\* QUOTE_MINIMAL: a field with the delimiter, the quote character or a
\* character of the line terminator is quoted
NeedsQuote(text) == \E i \in 1..Len(text) : text[i] \in {",", "\"", "\r", "\n"}

RECURSIVE DoubleQuotes(_)
DoubleQuotes(text) ==
    IF text = <<>> THEN <<>>
    ELSE (IF Head(text) = "\"" THEN <<"\"", "\"">> ELSE <<Head(text)>>)
            \o DoubleQuotes(Tail(text))

\* one field as written; `alone`: the row has this one field only, which the
\* writer quotes when it is empty
CsvField(v, alone) ==
    LET text == FieldText(v)
    IN  IF NeedsQuote(text) \/ (alone /\ text = <<>>)
        THEN <<"\"">> \o DoubleQuotes(text) \o <<"\"">>
        ELSE text

RECURSIVE JoinFields(_)
JoinFields(fields) ==
    IF fields = <<>> THEN <<>>
    ELSE IF Len(fields) = 1 THEN fields[1]
    ELSE fields[1] \o <<",">> \o JoinFields(Tail(fields))

\* the text csv.writer(data).writerow(row) writes (excel dialect)
writerow(row) ==
    JoinFields([i \in 1..Len(row) |-> CsvField(row[i], Len(row) = 1)])
        \o <<"\r", "\n">>

\* io.StringIO(): the text and the stream position
StringIO == [buf |-> <<>>, pos |-> 0]

\* data.write(text): overwrites from the position on, padding a gap
write(data, text) ==
    LET before == IF data.pos <= Len(data.buf)
                  THEN SubSeq(data.buf, 1, data.pos)
                  ELSE data.buf \o [i \in 1..(data.pos - Len(data.buf)) |-> "NUL"]
        after  == SubSeq(data.buf, data.pos + Len(text) + 1, Len(data.buf))
    IN  [buf |-> before \o text \o after, pos |-> data.pos + Len(text)]

getvalue(data) == data.buf

seek(data, offset) == [data EXCEPT !.pos = offset]

\* mutant of truncate: the buffer keeps its text
truncate_keeps(data, size) == data

\* data.truncate(size): cuts the text, leaves the position
truncate(data, size) ==
    [data EXCEPT !.buf = SubSeq(data.buf, 1, IF size < Len(@) THEN size ELSE Len(@))]

\* values of a result row
CsvCells == {None, PyInt(12), Str(<<"a">>), Str(<<"a", ",", "\"">>)}

\* cursor.description: one 7-tuple per column, the name first
Description(names) ==
    [i \in 1..Len(names) |-> <<names[i], None, None, None, None, None, None>>]

CsvDescriptions ==
    {Description(<<Str(<<"i", "d">>)>>),
     Description(<<Str(<<"i", "d">>), Str(<<"a", ",", "b">>)>>)}

\* the cursors of executed queries: a description and rows of its width
CsvCursors ==
    {[description |-> d, rows |-> r, fetched |-> 0] :
        <<d, r>> \in UNION {{<<d, r>> :
                              r \in UNION {[1..n -> [1..Len(d) -> CsvCells]] : n \in 0..MaxRows}} :
                            d \in CsvDescriptions}}

\* the header row: (key[0] for key in cursor.description)
HeaderRow(cursor) == [i \in 1..Len(cursor.description) |-> cursor.description[i][1]]

InitCsv ==
    /\ db = [rows |-> <<>>, sessions |-> "missing"]
    /\ pc = "unused"
    /\ self = <<>>
    /\ session_id = None
    /\ ctor = NoCall
    /\ call = NoCall
    /\ ret = NoRet
    /\ req = NoRequest
    /\ csv \in [pc : {"query"}, cursor : CsvCursors, data : {StringIO},
                out : {<<>>}, response : {None}]
    /\ ctx = Unused
    /\ creator = Unused
    /\ boot = Unused

\* stream_result_as_csv(cursor): the response around the generator object,
\* of which no statement has run yet
StreamResultAsCsv ==
    /\ csv.pc = "query"
    /\ csv' = [csv EXCEPT !.pc = "created",
                          !.response = [mimetype |-> "text/csv",
                                        disposition |-> "attachment"]]
    /\ UNCHANGED <<apiVars, ctx, creator, boot>>

\* the consumer's first next(): the generator runs to its first yield
YieldHeader ==
    /\ csv.pc = "created"
    /\ LET data == write(csv.data, writerow(HeaderRow(csv.cursor)))
       IN  csv' = [csv EXCEPT !.pc = "header",
                              !.data = data,
                              !.out = Append(@, getvalue(data))]
    /\ UNCHANGED <<apiVars, ctx, creator, boot>>

\* a later next(): the buffer is reset and the cursor has a next row, which
\* is written and yielded
YieldRow ==
    /\ csv.pc \in {"header", "row"}
    /\ csv.cursor.fetched < Len(csv.cursor.rows)
    /\ LET reset == truncate(seek(csv.data, 0), 0)
           row   == csv.cursor.rows[csv.cursor.fetched + 1]
           data  == write(reset, writerow(row))
       IN  csv' = [csv EXCEPT !.pc = "row",
                              !.cursor.fetched = @ + 1,
                              !.data = data,
                              !.out = Append(@, getvalue(data))]
    /\ UNCHANGED <<apiVars, ctx, creator, boot>>

\* a later next(): the buffer is reset and the cursor is exhausted
Exhausted ==
    /\ csv.pc \in {"header", "row"}
    /\ csv.cursor.fetched = Len(csv.cursor.rows)
    /\ csv' = [csv EXCEPT !.pc = "done",
                          !.data = truncate(seek(csv.data, 0), 0)]
    /\ UNCHANGED <<apiVars, ctx, creator, boot>>

\* the consumer stops pulling: the suspended generator is closed
StopPulling ==
    /\ csv.pc \in {"created", "header", "row"}
    /\ csv' = [csv EXCEPT !.pc = "closed"]
    /\ UNCHANGED <<apiVars, ctx, creator, boot>>

NextCsv ==
    \/ StreamResultAsCsv
    \/ YieldHeader
    \/ YieldRow
    \/ Exhausted
    \/ StopPulling

SpecCsv == InitCsv /\ [][NextCsv]_vars

\* C15: the generator yields the header first and then one chunk per row in
\* row order, each chunk holding the text of its own row only; when it ends
\* it has yielded N+1 chunks for N rows (the header alone for none); and a
\* consumer that has received k chunks has made it read k-1 rows.
C15_HeaderThenOneChunkPerRow ==
    csv.pc \in {"created", "header", "row", "done", "closed"} =>
        /\ Len(csv.out) <= Len(csv.cursor.rows) + 1
        /\ Len(csv.out) >= 1 => csv.out[1] = writerow(HeaderRow(csv.cursor))
        /\ \A i \in 2..Len(csv.out) : csv.out[i] = writerow(csv.cursor.rows[i - 1])
        /\ csv.cursor.fetched = IF csv.out = <<>> THEN 0 ELSE Len(csv.out) - 1
        /\ csv.pc = "done" => Len(csv.out) = Len(csv.cursor.rows) + 1

\* C15 witness: a result of two rows, the second shorter than the first, has
\* been streamed to its end in three chunks
C15_Witness ==
    /\ csv.pc = "done"
    /\ Len(csv.cursor.rows) = 2
    /\ Len(csv.out) = 3
    /\ Len(csv.out[3]) < Len(csv.out[2])

\* C15 witness: an empty result gives the header alone
C15_WitnessNoRows ==
    /\ csv.pc = "done"
    /\ csv.cursor.rows = <<>>
    /\ Len(csv.out) = 1

\* C15 witness: the consumer stopped after two chunks of a longer result
C15_WitnessStopped ==
    /\ csv.pc = "closed"
    /\ Len(csv.out) = 2
    /\ Len(csv.cursor.rows) = 2
    /\ csv.cursor.fetched = 1

(***************************************************************************)
(* A request's life in application.py: before_request, the route handler,  *)
(* teardown_request.  flask.g starts empty with every request; the         *)
(* connections sqlite3.connect() has made are kept with their state.       *)
(***************************************************************************)
\* most requests served
MaxRequests == 5

\* what sqlite3 does within before_request
ConnectOutcomes == {"ok", "connect_fails", "pragma_fails"}

\* what the route handler does
HandlerOutcomes == {"return", "raise"}

\* flask.g at the start of a request
EmptyG == [attrs |-> {}, db |-> 0]

\* before_request(); c is the context, outcome what sqlite3 does
before_request(c, outcome) ==
    LET timed == [c EXCEPT !.g.attrs = @ \cup {"t_real_start", "t_cpu_start"}]
    IN  IF "db" \in timed.g.attrs
        THEN [timed EXCEPT !.hook = "return"]
        ELSE IF outcome = "connect_fails"
        THEN [timed EXCEPT !.hook = "raise", !.error = "OperationalError"]
        ELSE LET connected == [timed EXCEPT !.conns = Append(@, "open"),
                                            !.g.attrs = @ \cup {"db"},
                                            !.g.db = Len(timed.conns) + 1,
                                            !.opened = @ + 1]
             IN  IF outcome = "pragma_fails"
                 THEN [connected EXCEPT !.hook = "raise", !.error = "OperationalError"]
                 ELSE [connected EXCEPT !.hook = "return"]

\* mutant of teardown_request: the connection is left open
teardown_request_leaves_open(c) ==
    IF "t_real_start" \notin c.g.attrs
    THEN [c EXCEPT !.hook = "raise"]
    ELSE [c EXCEPT !.hook = "return"]

\* teardown_request(error)
teardown_request(c) ==
    IF "t_real_start" \notin c.g.attrs
    THEN [c EXCEPT !.hook = "raise"]
    ELSE IF "db" \in c.g.attrs
    THEN [c EXCEPT !.conns[c.g.db] = "closed", !.hook = "return"]
    ELSE [c EXCEPT !.hook = "return"]

InitCtx ==
    /\ db = [rows |-> <<>>, sessions |-> "missing"]
    /\ pc = "unused"
    /\ self = <<>>
    /\ session_id = None
    /\ ctor = NoCall
    /\ call = NoCall
    /\ ret = NoRet
    /\ req = NoRequest
    /\ csv = Unused
    /\ ctx = [pc |-> "idle", g |-> EmptyG, conns |-> <<>>, opened |-> 0,
              served |-> 0, error |-> "none", hook |-> "none"]
    /\ creator = Unused
    /\ boot = Unused

\* a request arrives: a new context with an empty g
RequestBegins ==
    /\ ctx.pc \in {"idle", "ended"}
    /\ ctx.served < MaxRequests
    /\ ctx' = [ctx EXCEPT !.pc = "before_request", !.g = EmptyG, !.opened = 0,
                          !.error = "none", !.hook = "none"]
    /\ UNCHANGED <<apiVars, csv, creator, boot>>

\* @app.before_request: a failure skips the handler
BeforeRequest ==
    /\ ctx.pc = "before_request"
    /\ \E outcome \in ConnectOutcomes :
         LET c == before_request(ctx, outcome)
         IN  ctx' = [c EXCEPT !.pc = IF c.hook = "return" THEN "handler" ELSE "teardown"]
    /\ UNCHANGED <<apiVars, csv, creator, boot>>

\* the route handler returns a response or fails
RouteHandler ==
    /\ ctx.pc = "handler"
    /\ \E outcome \in HandlerOutcomes :
         ctx' = [ctx EXCEPT !.pc = "teardown",
                            !.error = IF outcome = "raise" THEN "Exception" ELSE "none"]
    /\ UNCHANGED <<apiVars, csv, creator, boot>>

\* @app.teardown_request: runs at the end of every request
TeardownRequest ==
    /\ ctx.pc = "teardown"
    /\ ctx' = [teardown_request(ctx) EXCEPT !.pc = "ended", !.served = @ + 1]
    /\ UNCHANGED <<apiVars, csv, creator, boot>>

NextCtx ==
    \/ RequestBegins
    \/ BeforeRequest
    \/ RouteHandler
    \/ TeardownRequest

SpecCtx == InitCtx /\ [][NextCtx]_vars

\* connections that are open
OpenConnections == {i \in 1..Len(ctx.conns) : ctx.conns[i] = "open"}

\* C16: a request opens at most one connection, and when it has ended,
\* normally, after a handler error or after a before_request failure, no
\* connection is open and teardown_request has returned, also when the
\* request opened no connection.
C16_ConnectionClosedAtRequestEnd ==
    ctx.pc # "unused" =>
        /\ ctx.opened <= 1
        /\ Cardinality(OpenConnections) <= ctx.opened
        /\ ctx.pc \in {"idle", "ended"} => OpenConnections = {}
        /\ ctx.pc = "ended" => ctx.hook = "return"

\* C16 witness: a request whose PRAGMA failed after the connection was
\* stored has ended with the connection closed
C16_Witness ==
    /\ ctx.pc = "ended"
    /\ ctx.error = "OperationalError"
    /\ ctx.opened = 1
    /\ "db" \in ctx.g.attrs
    /\ ctx.conns[ctx.g.db] = "closed"

\* C16 witness: a request that opened no connection has ended, its
\* teardown_request having returned
C16_WitnessNoConnection ==
    /\ ctx.pc = "ended"
    /\ ctx.opened = 0
    /\ "db" \notin ctx.g.attrs
    /\ ctx.hook = "return"

\* C16 witness: a request whose handler failed has ended
C16_WitnessHandlerError ==
    /\ ctx.pc = "ended"
    /\ ctx.error = "Exception"
    /\ ctx.opened = 1
    /\ OpenConnections = {}

(***************************************************************************)
(* The Schema Creator, util/create_database.py: one run drops the tables   *)
(* of its list, vacuums and creates the tables again.  The database file   *)
(* keeps its tables from one run to the next.  Error messages are          *)
(* sequences of characters (a table name counts as one).                   *)
(***************************************************************************)
\* most runs of the script
MaxRuns == 2

\* most statements that fail for a reason outside the script (a locked
\* database, a full disk) in one history
MaxFaults == 2

\* mutant of PyRange: the upper end is included
PyRange_inclusive(a, b) == [i \in 1..(b - a + 1) |-> a + i - 1]

\* range(a, b)
PyRange(a, b) == [i \in 1..(b - a) |-> a + i - 1]

\* "{:02}".format(n) for 0 <= n < 100
Format02(n) == Digits[(n \div 10) + 1] \o Digits[(n % 10) + 1]

\* "{:01}".format(n) and "{}".format(n) for 0 <= n < 10
Format01(n) == Digits[n + 1]

\* the lists of a loop's rounds, appended one after the other
RECURSIVE Concat(_)
Concat(lists) ==
    IF lists = <<>> THEN <<>> ELSE Head(lists) \o Concat(Tail(lists))

\* the sector specific counters of hitcount
SectorColumns ==
    Concat([i \in 1..Len(PyRange(0, 37)) |->
        LET sector == PyRange(0, 37)[i]
        IN  [j \in 1..Len(PyRange(1, 13)) |->
                "s" \o Format02(sector) \o "p" \o Format02(PyRange(1, 13)[j])]
            \o
            [j \in 1..Len(PyRange(1, 9)) |->
                "s" \o Format02(sector) \o "e" \o Format02(PyRange(1, 9)[j])]])

\* the telescope specific counters of hitcount
TelescopeColumns ==
    Concat([i \in 1..2 |->
        LET telescope == <<"st", "rt">>[i]
        IN  [j \in 1..Len(PyRange(1, 3)) |->
                telescope \o "ac" \o Format01(PyRange(1, 3)[j])]
            \o
            [j \in 1..Len(PyRange(1, 5)) |->
                telescope \o "d1p" \o Format01(PyRange(1, 5)[j])]
            \o
            <<telescope \o "d2p1">>
            \o
            [j \in 1..Len(PyRange(1, 3)) |->
                telescope \o "trash" \o Format01(PyRange(1, 3)[j])]])

hitcount_columns ==
    <<"timestamp", "session_id">> \o SectorColumns \o TelescopeColumns

housekeeping_columns ==
    <<"timestamp", "session_id">> \o
    Concat([i \in 1..Len(PyRange(0, 37)) |->
        LET c == PyRange(0, 37)[i]
        IN  <<"s_c" \o Format02(c), "r_c" \o Format02(c)>>])

CreateTable(name, cols, references) ==
    [kind |-> "TABLE", name |-> name, columns |-> cols, references |-> references]

\* the statements of the create phase, in the order they are executed
CreateStatements ==
    <<CreateTable("pate", <<"id", "id_min", "id_max", "label">>, {}),
      CreateTable("testing_session",
                  <<"id", "started", "pate_id", "pate_firmware">>, {"pate"}),
      CreateTable("hitcount", hitcount_columns, {"testing_session"}),
      CreateTable("pulseheight",
                  <<"timestamp", "session_id", "ac1", "d1a", "d1b", "d1c",
                    "d2a", "d2b", "d3", "ac2">>, {"testing_session"}),
      CreateTable("register", <<"pate_id", "retrieved", "reg01", "reg02">>, {"pate"}),
      CreateTable("note", <<"id", "session_id", "text", "created">>,
                  {"testing_session"}),
      CreateTable("command",
                  <<"id", "session_id", "interface", "command", "value",
                    "created", "handled", "result">>, {"testing_session"}),
      CreateTable("psu",
                  <<"id", "power", "voltage_setting", "current_limit",
                    "measured_current", "measured_voltage", "state", "modified">>, {}),
      [kind |-> "TRIGGER", name |-> "psu_ari", on |-> "psu"],
      CreateTable("housekeeping", housekeeping_columns, {"testing_session"})>>

\* mutant of tables: the parents come before their children
tables_parents_first ==
    <<"pate", "testing_session", "note", "command", "register", "pulseheight",
      "hitcount", "housekeeping", "psu">>

\* the drop list
tables ==
    <<"note", "command", "register", "pulseheight", "hitcount", "housekeeping",
      "testing_session", "pate", "psu">>

\* messages of sqlite3 errors
NoSuchTable(table) ==
    <<"n", "o", " ", "s", "u", "c", "h", " ", "t", "a", "b", "l", "e", ":", " ", table>>

DatabaseIsLocked ==
    <<"d", "a", "t", "a", "b", "a", "s", "e", " ", "i", "s", " ",
      "l", "o", "c", "k", "e", "d">>

AlreadyExists(name) ==
    <<"t", "a", "b", "l", "e", " ", name, " ", "a", "l", "r", "e", "a", "d", "y",
      " ", "e", "x", "i", "s", "t", "s">>

DuplicateColumn == <<"d", "u", "p", "l", "i", "c", "a", "t", "e", " ", "c", "o", "l", "u", "m", "n">>

\* str(e)[:n]
Prefix(text, n) == SubSeq(text, 1, IF Len(text) < n THEN Len(text) ELSE n)

\* mutant of drop_error_is_harmless: every failure is passed over
drop_error_is_harmless_always(e) == TRUE

\* the test of the drop loop's except branch: str(e)[:7] == "no such"
drop_error_is_harmless(e) == Prefix(e, 7) = <<"n", "o", " ", "s", "u", "c", "h">>

\* a database file without tables
EmptyDb == [tables |-> [t \in {} |-> <<>>], triggers |-> {}]

\* DROP TABLE: the table goes, and so do its triggers
drop_table(d, table) ==
    [tables   |-> [t \in DOMAIN d.tables \ {table} |-> d.tables[t]],
     triggers |-> {tr \in d.triggers : tr.on # table}]

\* the error with which a CREATE statement must fail on database d, or <<>>
create_error(d, stmt) ==
    IF stmt.kind = "TABLE"
    THEN IF stmt.name \in DOMAIN d.tables THEN AlreadyExists(stmt.name)
         ELSE IF Cardinality(Range(stmt.columns)) # Len(stmt.columns) THEN DuplicateColumn
         ELSE <<>>
    ELSE IF stmt.name \in {tr.name : tr \in d.triggers} THEN AlreadyExists(stmt.name)
         ELSE IF stmt.on \notin DOMAIN d.tables THEN NoSuchTable(stmt.on)
         ELSE <<>>

\* the database after a CREATE statement that succeeded
create(d, stmt) ==
    IF stmt.kind = "TABLE"
    THEN [d EXCEPT !.tables = @ @@ (stmt.name :>
                [columns |-> stmt.columns, references |-> stmt.references])]
    ELSE [d EXCEPT !.triggers = @ \cup {[name |-> stmt.name, on |-> stmt.on]}]

\* one executed statement and how it ended (error <<>>: it succeeded)
Executed(stmt, name, error) == [stmt |-> stmt, name |-> name, error |-> error]

InitCreator ==
    /\ db = [rows |-> <<>>, sessions |-> "missing"]
    /\ pc = "unused"
    /\ self = <<>>
    /\ session_id = None
    /\ ctor = NoCall
    /\ call = NoCall
    /\ ret = NoRet
    /\ req = NoRequest
    /\ csv = Unused
    /\ ctx = Unused
    /\ creator \in [pc : {"shell"}, is_file : BOOLEAN, db : {EmptyDb}, i : {0},
                    ok : {TRUE}, log : {<<>>}, run : {0}, faults : {0},
                    previous : {None}]
    /\ boot = Unused

\* the script is started: without the database file it ends at once
StartScript ==
    /\ creator.pc \in {"shell", "exited", "raised", "done"}
    /\ creator.run < MaxRuns
    /\ creator' = [creator EXCEPT
            !.pc = IF creator.is_file THEN "drop" ELSE "exited",
            !.i = 1,
            !.ok = TRUE,
            !.log = IF creator.is_file
                    THEN <<Executed("PRAGMA", "foreign_keys", <<>>)>> ELSE <<>>,
            !.run = @ + 1,
            !.previous = IF creator.pc = "done" THEN creator.db ELSE @]
    /\ UNCHANGED <<apiVars, csv, ctx, boot>>

\* one round of the drop loop
DropTable ==
    /\ creator.pc = "drop"
    /\ LET table == tables[creator.i]
           next  == IF creator.i = Len(tables) THEN "dropped" ELSE "drop"
       IN  \/ /\ table \notin DOMAIN creator.db.tables
              /\ creator' = [creator EXCEPT
                    !.pc = next, !.i = @ + 1,
                    !.ok = IF drop_error_is_harmless(NoSuchTable(table)) THEN @ ELSE FALSE,
                    !.log = Append(@, Executed("DROP", table, NoSuchTable(table)))]
           \/ /\ table \in DOMAIN creator.db.tables
              /\ creator' = [creator EXCEPT
                    !.pc = next, !.i = @ + 1,
                    !.db = drop_table(@, table),
                    !.log = Append(@, Executed("DROP", table, <<>>))]
           \/ /\ table \in DOMAIN creator.db.tables
              /\ creator.faults < MaxFaults
              /\ creator' = [creator EXCEPT
                    !.pc = next, !.i = @ + 1,
                    !.ok = IF drop_error_is_harmless(DatabaseIsLocked) THEN @ ELSE FALSE,
                    !.faults = @ + 1,
                    !.log = Append(@, Executed("DROP", table, DatabaseIsLocked))]
    /\ UNCHANGED <<apiVars, csv, ctx, boot>>

\* `if not ok: os._exit(-1)` after the loop
CheckDrops ==
    /\ creator.pc = "dropped"
    /\ creator' = [creator EXCEPT !.pc = IF creator.ok THEN "vacuum" ELSE "exited"]
    /\ UNCHANGED <<apiVars, csv, ctx, boot>>

\* the vacuum; its failure is raised again
Vacuum ==
    /\ creator.pc = "vacuum"
    /\ \/ creator' = [creator EXCEPT
                !.pc = "create", !.i = 1,
                !.log = Append(@, Executed("VACUUM", "", <<>>))]
       \/ /\ creator.faults < MaxFaults
          /\ creator' = [creator EXCEPT
                !.pc = "raised", !.faults = @ + 1,
                !.log = Append(@, Executed("VACUUM", "", DatabaseIsLocked))]
    /\ UNCHANGED <<apiVars, csv, ctx, boot>>

\* the next statement of the create phase; a failure ends the script
Create ==
    /\ creator.pc = "create"
    /\ LET stmt  == CreateStatements[creator.i]
           error == create_error(creator.db, stmt)
           next  == IF creator.i = Len(CreateStatements) THEN "done" ELSE "create"
       IN  \/ /\ error = <<>>
              /\ creator' = [creator EXCEPT
                    !.pc = next, !.i = @ + 1,
                    !.db = create(@, stmt),
                    !.log = Append(@, Executed("CREATE", stmt.name, <<>>))]
           \/ /\ error # <<>> \/ creator.faults < MaxFaults
              /\ creator' = [creator EXCEPT
                    !.pc = "raised",
                    !.faults = IF error = <<>> THEN @ + 1 ELSE @,
                    !.log = Append(@, Executed("CREATE", stmt.name,
                                IF error = <<>> THEN DatabaseIsLocked ELSE error))]
    /\ UNCHANGED <<apiVars, csv, ctx, boot>>

NextCreator ==
    \/ StartScript
    \/ DropTable
    \/ CheckDrops
    \/ Vacuum
    \/ Create

SpecCreator == InitCreator /\ [][NextCreator]_vars

\* the statements of the current run that are DROPs which failed for
\* another reason than the table's absence
FatalDrops ==
    {k \in 1..Len(creator.log) :
        /\ creator.log[k].stmt = "DROP"
        /\ creator.log[k].error # <<>>
        /\ creator.log[k].error # NoSuchTable(creator.log[k].name)}

\* the DROPs of the current run that found no table
MissingDrops ==
    {k \in 1..Len(creator.log) :
        /\ creator.log[k].stmt = "DROP"
        /\ creator.log[k].error = NoSuchTable(creator.log[k].name)}

LaterStatements ==
    {k \in 1..Len(creator.log) : creator.log[k].stmt \in {"VACUUM", "CREATE"}}

AllDrops == {k \in 1..Len(creator.log) : creator.log[k].stmt = "DROP"}

\* C17: a DROP that fails because the table is not there does not stop the
\* run, which goes on to the vacuum; any other DROP failure ends the process
\* after the drop phase with neither the VACUUM nor a CREATE executed.
C17_OnlyMissingTableIsHarmless ==
    creator.pc \notin {"unused", "shell"} =>
        /\ creator.ok = (FatalDrops = {})
        /\ FatalDrops # {} => LaterStatements = {}
        /\ (FatalDrops # {} /\ creator.pc \notin {"drop", "dropped"}) =>
                /\ creator.pc = "exited"
                /\ Cardinality(AllDrops) = Len(tables)
        /\ (FatalDrops = {} /\ creator.is_file
                /\ creator.pc \notin {"drop", "dropped", "vacuum"}) =>
                /\ creator.pc # "exited"
                /\ LaterStatements # {}

\* C17 witness: a run in which a table was not there has gone on to create
\* tables
C17_Witness ==
    /\ MissingDrops # {}
    /\ FatalDrops = {}
    /\ creator.pc = "done"
    /\ \E k \in LaterStatements : creator.log[k].stmt = "CREATE"

\* C17 witness: a run with another DROP failure has ended after its nine
\* DROPs
C17_WitnessFatal ==
    /\ FatalDrops # {}
    /\ creator.pc = "exited"
    /\ Cardinality(AllDrops) = 9
    /\ LaterStatements = {}

\* C18: after a run that succeeded hitcount has its two key columns and
\* 37*20 + 2*9 = 758 counter columns, all of different names, the database
\* has the nine tables, and tables and columns are those the previous
\* successful run ended with.
C18_SameSchemaEveryRun ==
    creator.pc = "done" =>
        LET cols == creator.db.tables["hitcount"].columns
        IN  /\ SubSeq(cols, 1, 2) = <<"timestamp", "session_id">>
            /\ Len(cols) - 2 = 37 * 20 + 2 * 9
            /\ Cardinality(Range(cols)) = Len(cols)
            /\ Cardinality(DOMAIN creator.db.tables) = 9
            /\ creator.run > 1 /\ creator.previous # None =>
                    creator.db = creator.previous

\* C18 witness: a second successful run after a first
C18_Witness ==
    /\ creator.pc = "done"
    /\ creator.run = 2
    /\ creator.previous # None
    /\ Len(creator.db.tables["hitcount"].columns) = 760

\* the foreign keys the create phase declares: <<child, parent>>
ForeignKeys ==
    UNION {{<<stmt.name, parent>> : parent \in stmt.references} :
            stmt \in {c \in Range(CreateStatements) : c.kind = "TABLE"}}

\* C19: the DROP of a table comes after the DROP of every table with a
\* foreign key to it, and every table the create phase has created is in
\* the drop list.
C19_ChildrenDroppedFirst ==
    creator.pc \notin {"unused", "shell"} =>
        /\ \A k \in AllDrops : \A fk \in ForeignKeys :
                fk[2] = creator.log[k].name =>
                    \E j \in AllDrops : j < k /\ creator.log[j].name = fk[1]
        /\ \A t \in DOMAIN creator.db.tables : t \in Range(tables)
        /\ \A fk \in ForeignKeys : fk[1] \in Range(tables) /\ fk[2] \in Range(tables)

\* C19 witness: pate was dropped from a database that had testing_session,
\* which was dropped before it
C19_Witness ==
    \E j, k \in AllDrops :
        /\ j < k
        /\ creator.log[j].name = "testing_session"
        /\ creator.log[j].error = <<>>
        /\ creator.log[k].name = "pate"
        /\ creator.log[k].error = <<>>

(***************************************************************************)
(* Start-up of application.py: the API version is read from the file       *)
(* APIVERSION and stored on the application object.                        *)
(***************************************************************************)
\* most lines of the APIVERSION file
MaxLines == 2

Whitespace == {" ", "\t", "\n", "\r"}

\* str.strip()
RECURSIVE strip(_)
strip(text) ==
    IF text = <<>> THEN <<>>
    ELSE IF Head(text) \in Whitespace THEN strip(Tail(text))
    ELSE IF text[Len(text)] \in Whitespace THEN strip(SubSeq(text, 1, Len(text) - 1))
    ELSE text

DigitValue(ch) == (CHOOSE i \in 1..Len(Digits) : Digits[i] = ch) - 1

\* the number a non-empty sequence of digits stands for
RECURSIVE DigitsValue(_)
DigitsValue(text) ==
    IF Len(text) = 1 THEN DigitValue(text[1])
    ELSE DigitsValue(SubSeq(text, 1, Len(text) - 1)) * 10 + DigitValue(text[Len(text)])

\* int(text): an optional sign and digits, or ValueError
int(text) ==
    LET t      == strip(text)
        signed == t # <<>> /\ t[1] \in {"+", "-"}
        body   == IF signed THEN Tail(t) ELSE t
    IN  IF body # <<>> /\ \A i \in 1..Len(body) : body[i] \in Range(Digits)
        THEN [kind |-> "return",
              value |-> IF signed /\ t[1] = "-" THEN 0 - DigitsValue(body)
                        ELSE DigitsValue(body)]
        ELSE [kind |-> "raise", exc |-> "ValueError"]

\* lines an APIVERSION file is made of
VersionLines ==
    {<<"2", "\n">>, <<" ", "1", "2", "\n">>, <<"-", "3", "\n">>,
     <<"#", " ", "v", "\n">>, <<"\n">>, <<"2", ".", "0", "\n">>}

\* the file: not to be opened, or its lines
VersionFiles ==
    {[readable |-> FALSE, lines |-> <<>>]}
    \cup {[readable |-> TRUE, lines |-> l] :
            l \in UNION {[1..n -> VersionLines] : n \in 0..MaxLines}}

\* a name of the module that no statement has bound
Unbound == [t |-> "unbound"]

\* a float of n tenths of a second: Tenths(10) is 1.0, Tenths(2) is 0.2
Tenths(n) == PyFloat(n)

ConfigKeys == {"COMMAND_TIMEOUT", "COMMAND_POLL_INTERVAL"}

\* values application.conf may give a key
ConfigValues == {None, Tenths(0), Tenths(2), Tenths(5), PyInt(3)}

\* app.config after from_pyfile('application.conf'): each key defined or not
Configs == UNION {[keys -> ConfigValues] : keys \in SUBSET ConfigKeys}

\* the configuration before application.conf is read
NoConfig == [k \in {} |-> None]

\* app.config.get(key, default)
config_get(config, key, default) ==
    IF key \in DOMAIN config THEN config[key] ELSE default

\* app.config[key] = value
config_set(config, key, value) ==
    [k \in DOMAIN config \cup {key} |-> IF k = key THEN value ELSE config[k]]

InitBoot ==
    /\ db = [rows |-> <<>>, sessions |-> "missing"]
    /\ pc = "unused"
    /\ self = <<>>
    /\ session_id = None
    /\ ctor = NoCall
    /\ call = NoCall
    /\ ret = NoRet
    /\ req = NoRequest
    /\ csv = Unused
    /\ ctx = Unused
    /\ creator = Unused
    /\ boot \in [pc : {"start"}, file : VersionFiles, i : {0},
                 apiversion : {Unbound}, app : {[name |-> "application"]},
                 exc : {"none"}, conf : {NoConfig}, config : {NoConfig},
                 warnings : {<<>>}]

\* open('APIVERSION'): a failure binds -1 in the except branch
OpenVersionFile ==
    /\ boot.pc = "start"
    /\ boot' = IF boot.file.readable
               THEN [boot EXCEPT !.pc = "lines", !.i = 1]
               ELSE [boot EXCEPT !.pc = "finally", !.apiversion = PyInt(-1)]
    /\ UNCHANGED <<apiVars, csv, ctx, creator>>

\* one round of the loop over the lines: the first integer is bound and
\* ends the loop, any other line is passed over
ReadVersionLine ==
    /\ boot.pc = "lines"
    /\ boot.i <= Len(boot.file.lines)
    /\ LET parsed == int(strip(boot.file.lines[boot.i]))
       IN  boot' = IF parsed.kind = "return"
                   THEN [boot EXCEPT !.pc = "finally", !.apiversion = PyInt(parsed.value)]
                   ELSE [boot EXCEPT !.i = @ + 1]
    /\ UNCHANGED <<apiVars, csv, ctx, creator>>

\* reading the next line fails: the except branch binds -1
ReadVersionFails ==
    /\ boot.pc = "lines"
    /\ boot.i <= Len(boot.file.lines)
    /\ boot' = [boot EXCEPT !.pc = "finally", !.apiversion = PyInt(-1)]
    /\ UNCHANGED <<apiVars, csv, ctx, creator>>

\* the file has no further line
VersionFileEnds ==
    /\ boot.pc = "lines"
    /\ boot.i > Len(boot.file.lines)
    /\ boot' = [boot EXCEPT !.pc = "finally"]
    /\ UNCHANGED <<apiVars, csv, ctx, creator>>

\* finally: setattr(app, 'apiversion', apiversion)
SetApiVersion ==
    /\ boot.pc = "finally"
    /\ boot' = IF boot.apiversion = Unbound
               THEN [boot EXCEPT !.pc = "failed", !.exc = "NameError"]
               ELSE [boot EXCEPT !.pc = "loaded",
                                 !.app = [name |-> "application",
                                          apiversion |-> boot.apiversion]]
    /\ UNCHANGED <<apiVars, csv, ctx, creator>>

\* app.config.from_pyfile('application.conf'): the file's keys are taken
\* over, or the file cannot be read and start-up ends
FromPyfile ==
    /\ boot.pc = "loaded"
    /\ \/ \E conf \in Configs :
            boot' = [boot EXCEPT !.pc = "config", !.conf = conf, !.config = conf]
       \/ boot' = [boot EXCEPT !.pc = "aborted", !.exc = "FileNotFoundError"]
    /\ UNCHANGED <<apiVars, csv, ctx, creator>>

\* the check of COMMAND_TIMEOUT
CheckCommandTimeout ==
    /\ boot.pc = "config"
    /\ boot' = IF ~Truthy(config_get(boot.config, "COMMAND_TIMEOUT", None))
               THEN [boot EXCEPT
                        !.pc = "timeout_checked",
                        !.warnings = Append(@, "COMMAND_TIMEOUT not defined in application.conf! Defaulting to 1 second..."),
                        !.config = config_set(@, "COMMAND_TIMEOUT", Tenths(10))]
               ELSE [boot EXCEPT !.pc = "timeout_checked"]
    /\ UNCHANGED <<apiVars, csv, ctx, creator>>

\* the check of COMMAND_POLL_INTERVAL
CheckCommandPollInterval ==
    /\ boot.pc = "timeout_checked"
    /\ boot' = IF ~Truthy(config_get(boot.config, "COMMAND_POLL_INTERVAL", None))
               THEN [boot EXCEPT
                        !.pc = "started",
                        !.warnings = Append(@, "COMMAND_POLL_INTERVAL not defined in application.conf! Defaulting to 0.2 seconds..."),
                        !.config = config_set(@, "COMMAND_POLL_INTERVAL", Tenths(10))]
               ELSE [boot EXCEPT !.pc = "started"]
    /\ UNCHANGED <<apiVars, csv, ctx, creator>>

NextBoot ==
    \/ OpenVersionFile
    \/ ReadVersionLine
    \/ ReadVersionFails
    \/ VersionFileEnds
    \/ SetApiVersion
    \/ FromPyfile
    \/ CheckCommandTimeout
    \/ CheckCommandPollInterval

SpecBoot == InitBoot /\ [][NextBoot]_vars

\* C20 (as claimed): the version-loading block never fails, and after it
\* app.apiversion is an integer, -1 when the file cannot be read, also for
\* an empty file and a file without an integer line.
C20_ApiVersionAlwaysSet ==
    boot.pc \in {"loaded", "failed"} =>
        /\ boot.pc = "loaded"
        /\ boot.exc = "none"
        /\ "apiversion" \in DOMAIN boot.app
        /\ boot.app.apiversion.t = "int"
        /\ ~boot.file.readable => boot.app.apiversion = PyInt(-1)

\* C21 (as claimed): after the configuration checks a COMMAND_POLL_INTERVAL
\* that application.conf does not define is 0.2 seconds, a COMMAND_TIMEOUT
\* that it does not define is 1 second, and a value that it defines is the
\* one it defines.
C21_ConfigurationDefaults ==
    boot.pc = "started" =>
        /\ "COMMAND_TIMEOUT" \notin DOMAIN boot.conf =>
                boot.config["COMMAND_TIMEOUT"] = Tenths(10)
        /\ "COMMAND_POLL_INTERVAL" \notin DOMAIN boot.conf =>
                boot.config["COMMAND_POLL_INTERVAL"] = Tenths(2)
        /\ \A key \in DOMAIN boot.conf : boot.config[key] = boot.conf[key]

====
